---- MODULE Spec2Model ----
(***************************************************************************)
(* Model of the model-residency manager (src/ai/memory_manager.py,         *)
(* AIMemoryManager) and of the semantic query cache                        *)
(* (src/ai/advanced_ml_optimizer.py, SemanticCacheEngine).                 *)
(*                                                                         *)
(* Sizes are in whole units (the source uses floating-point GB), time is a *)
(* logical clock read where the source reads time.time().                  *)
(***************************************************************************)
EXTENDS Integers, Sequences, FiniteSets, TLC

(***************************************************************************)
(* Bounds of the model.                                                    *)
(***************************************************************************)
NProcs == 2
MaxCalls == 2
MaxTime == 1

MaxCacheSize == 2
MaxCacheOps == 3
MaxFillOps == 6
MaxLruOps == 5
MaxBatch == 3
MaxRequests == 4
MaxSamples == 11
MaxRefitSamples == 101
MaxPipelineOps == 4
MaxInFlight == 2
NThreads == 2

Procs == 1..NProcs
\* asyncio.Lock with no owner
NoProc == 0
\* cache_size: int = 1000
DefaultCacheSize == 1000
\* similarity_threshold: float = 0.85, in hundredths
DefaultThreshold == 85
\* AdvancedMLOptimizer(cache_size=2000)
PipelineCacheSize == 2000
\* max_batch_size: int = 8
DefaultMaxBatchSize == 8
\* batch_history = deque(maxlen=100)
HistoryMaxLen == 100
\* if len(self.batch_history) < 10: return
MinSamples == 10
\* if len(self.batch_history) % 10 == 0: self._train_performance_model()
TrainEvery == 10

(***************************************************************************)
(* The static catalog, AIMemoryManager.model_specs: one model, tinyllama,  *)
(* of 0.6 GB (2 units of 0.3 GB) and priority 1.  A checkpoint file may    *)
(* also name models the catalog does not have (it restores every entry it  *)
(* finds); these are of 1 unit each.                                       *)
(***************************************************************************)
Names == {"tinyllama"}
\* names that only a checkpoint file holds
OldNames == {"b", "c"}
\* a name that is in no catalog and in no file (a caller's typo)
Unknown == "z"
AllNames == Names \cup OldNames \cup {Unknown}

\* the budgets tried: too small for tinyllama, room for it alone, room for it
\* and one more model
Budgets == {1, 2, 3}
\* the numbers of entries of the checkpoint files tried
FileLengths == {0, 1, 2}
\* the priorities of the models that only a checkpoint file holds
OldPriorities == {1, 2}

\* ModelInfo(name, size_gb, last_used, load_time, usage_count, priority, status)
ModelInfo(n, size, used, ltime, count, prio, st) ==
    [name |-> n, size_gb |-> size, last_used |-> used, load_time |-> ltime,
     usage_count |-> count, priority |-> prio, status |-> st]

\* self.model_specs as __init__ builds it: ModelInfo('tinyllama', 0.6, 0, 0, 0, 1)
StaticCatalog ==
    [n \in Names |-> ModelInfo(n, 2, 0, 0, 0, 1, "unloaded")]

VARIABLES
    max_memory_gb,   \* self.max_memory_gb
    model_specs,     \* self.model_specs: name -> ModelInfo object of the catalog
    restored,        \* ModelInfo objects that _load_state created: name -> ModelInfo
    loaded_models,   \* self.loaded_models, in insertion order: <<[name, ref]>>,
                     \* ref = "spec" (the catalog's object) or "restored"
    state_file,      \* the checkpoint file
    boot_file,       \* the checkpoint file as the last construction read it
    lock_holder,     \* self.loading_lock: the call inside it, or NoProc
    lock_waiters,    \* self.loading_lock: the calls waiting for it, in order
    pc,              \* per call: "idle", "waiting" (for the lock), "probing"
    target,          \* per call: model_name
    start_time,      \* start_time of the call inside the lock
    probes,          \* ollama.chat calls the call inside the lock has issued
    pre,             \* every object's status when the call inside the lock entered it
    last,            \* the step just taken, when it was a construction, an entry
                     \* into the lock or a return: who, how, the value returned,
                     \* the gateway calls issued, the statuses and usage found
    streak,          \* the run of consecutive returns of the fast path for one model
    gateway_calls,   \* ollama.chat calls received by the gateway
    now,             \* time.time()
    ncalls,          \* calls made so far (bounds the model)
    cache_size,      \* SemanticCacheEngine.cache_size
    similarity_threshold,  \* SemanticCacheEngine.similarity_threshold, in hundredths
    cache,           \* SemanticCacheEngine.cache, in insertion order
    embeddings,      \* SemanticCacheEngine.embeddings, in insertion order
    is_vectorizer_fitted,  \* SemanticCacheEngine.is_vectorizer_fitted
    fitted_on,       \* the query the vectorizer was fitted on (with the bootstrap ones)
    reply,           \* the cache call that just returned and what it returned
    cache_time,      \* time.time() as the cache reads it
    cache_calls_left, \* cache calls still allowed (bounds the model)
    max_batch_size,  \* AdaptiveBatchingEngine.max_batch_size
    pending_requests, \* AdaptiveBatchingEngine.pending_requests, oldest first
    batch_history,   \* AdaptiveBatchingEngine.batch_history: how many records it
                     \* holds, whether all of them hold finite numbers, and how
                     \* many records were appended to it since construction
    performance_model, \* AdaptiveBatchingEngine.performance_model: NoModel, an
                     \* estimator that was never fitted, or the fitted line
    result,          \* the engine call that just returned and what it returned
    issued,          \* the numbers add_request has returned, in order
    dispatched,      \* the requests get_optimal_batch has returned, in order
    requests_left,   \* add_request calls still allowed (bounds the model)
    samples_left,    \* record_batch_performance calls still allowed (bounds the model)
    selecting,       \* per thread inside get_optimal_batch: the optimal_size it
                     \* has computed and the queue it computed it from, until
                     \* it has taken self.lock and dequeued
    in_flight,       \* the process_query_enhanced calls that wait for the model:
                     \* <<[query, context_hash]>>
    answered         \* how the process_query_enhanced call that just returned ended

mgrVars == <<max_memory_gb, model_specs, restored, loaded_models, state_file,
             boot_file, lock_holder, lock_waiters, pc, target, start_time, probes,
             pre, last, streak, gateway_calls, now, ncalls>>
cacheVars == <<cache_size, similarity_threshold, cache, embeddings,
               is_vectorizer_fitted, fitted_on, reply, cache_time, cache_calls_left>>
engineVars == <<max_batch_size, pending_requests, batch_history, performance_model,
                result, issued, dispatched, requests_left, samples_left, selecting>>
pipeVars == <<in_flight, answered>>
vars == <<mgrVars, cacheVars, engineVars, pipeVars>>

(***************************************************************************)
(* Objects and the loaded_models table.                                    *)
(***************************************************************************)
Entry(n, r) == [name |-> n, ref |-> r]

\* the ModelInfo object an entry of loaded_models refers to
Deref(specs, rest, e) == IF e.ref = "spec" THEN specs[e.name] ELSE rest[e.name]

LoadedNames(lm) == {lm[i].name : i \in 1..Len(lm)}

IndexOf(lm, n) == CHOOSE i \in 1..Len(lm) : lm[i].name = n

\* loaded_models[n] (n is a key)
Lookup(specs, rest, lm, n) == Deref(specs, rest, lm[IndexOf(lm, n)])

\* model_name in self.loaded_models and self.loaded_models[model_name].status == "loaded"
IsLoaded(specs, rest, lm, n) ==
    /\ n \in LoadedNames(lm)
    /\ Lookup(specs, rest, lm, n).status = "loaded"

RECURSIVE SumSizes(_, _, _, _)
SumSizes(specs, rest, lm, i) ==
    IF i > Len(lm) THEN 0
    ELSE (IF Deref(specs, rest, lm[i]).status = "loaded"
          THEN Deref(specs, rest, lm[i]).size_gb ELSE 0)
         + SumSizes(specs, rest, lm, i + 1)

\* _get_current_memory_usage
GetCurrentMemoryUsage(specs, rest, lm) == SumSizes(specs, rest, lm, 1)

\* dict assignment self.loaded_models[n] = obj: an existing key keeps its place
Assign(lm, n, r) ==
    IF n \in LoadedNames(lm)
    THEN [lm EXCEPT ![IndexOf(lm, n)] = Entry(n, r)]
    ELSE Append(lm, Entry(n, r))

(***************************************************************************)
(* The checkpoint file.  kind: "absent", "invalid" (not JSON, or no JSON   *)
(* object), "json".  An entry is ok when the ModelInfo constructor accepts  *)
(* its value and not ok when the constructor raises on it.                 *)
(***************************************************************************)
FileEntry(n, good, d) == [name |-> n, ok |-> good, info |-> d]
AbsentFile == [kind |-> "absent", entries |-> <<>>]
InvalidFile == [kind |-> "invalid", entries |-> <<>>]
JsonFile(es) == [kind |-> "json", entries |-> es]

RECURSIVE GoodPrefix(_, _)
\* the loop of _load_state: entries are restored one by one until one raises
GoodPrefix(es, i) ==
    IF i > Len(es) \/ ~es[i].ok THEN <<>>
    ELSE <<es[i]>> \o GoodPrefix(es, i + 1)

\* _load_state: the entries restored into self.loaded_models
LoadState(f) == IF f.kind = "json" THEN GoodPrefix(f.entries, 1) ELSE <<>>

\* the ModelInfo objects _load_state creates, by name
RestoredObjects(f) ==
    LET es == LoadState(f)
    IN [n \in {es[i].name : i \in 1..Len(es)} |->
            es[CHOOSE i \in 1..Len(es) : es[i].name = n].info]

\* self.loaded_models after _load_state
RestoredLoadedModels(f) ==
    LET es == LoadState(f)
    IN [i \in 1..Len(es) |-> Entry(es[i].name, "restored")]

\* _save_state: asdict of every entry of loaded_models, in order
SaveState(specs, rest, lm) ==
    JsonFile([i \in 1..Len(lm) |-> FileEntry(lm[i].name, TRUE, Deref(specs, rest, lm[i]))])

(***************************************************************************)
(* _free_memory_for_model                                                  *)
(***************************************************************************)
\* key=lambda x: (x[1].priority, x[1].last_used)
KeyLess(x, y) ==
    \/ x.priority < y.priority
    \/ x.priority = y.priority /\ x.last_used < y.last_used

\* positions of the loaded entries of loaded_models
LoadedPositions(specs, rest, lm) ==
    {i \in 1..Len(lm) : Deref(specs, rest, lm[i]).status = "loaded"}

RECURSIVE SortPositions(_, _, _, _)
\* sorted(..., key=...): ascending, stable (equal keys keep dictionary order)
SortPositions(specs, rest, lm, S) ==
    IF S = {} THEN <<>>
    ELSE LET first == CHOOSE i \in S : \A j \in S \ {i} :
                          \/ KeyLess(Deref(specs, rest, lm[i]), Deref(specs, rest, lm[j]))
                          \/ /\ ~KeyLess(Deref(specs, rest, lm[j]), Deref(specs, rest, lm[i]))
                             /\ i < j
         IN <<first>> \o SortPositions(specs, rest, lm, S \ {first})

RECURSIVE UnloadLoop(_, _, _, _, _, _, _)
\* the for loop: the positions whose entry is unloaded
UnloadLoop(specs, rest, lm, order, k, current_usage, target_usage) ==
    IF k > Len(order) \/ current_usage <= target_usage THEN {}
    ELSE {order[k]} \cup
         UnloadLoop(specs, rest, lm, order, k + 1,
                    current_usage - Deref(specs, rest, lm[order[k]]).size_gb,
                    target_usage)

\* the positions of loaded_models that _free_memory_for_model(required_gb) unloads
FreeMemoryForModel(specs, rest, lm, budget, required_gb) ==
    LET current_usage == GetCurrentMemoryUsage(specs, rest, lm)
        target_usage == budget - required_gb
    IN IF current_usage <= target_usage THEN {}
       ELSE UnloadLoop(specs, rest, lm,
                       SortPositions(specs, rest, lm, LoadedPositions(specs, rest, lm)),
                       1, current_usage, target_usage)

\* model_info.status = "unloaded" on the objects at positions P
UnloadSpecs(specs, lm, P) ==
    [n \in DOMAIN specs |->
        IF \E i \in P : lm[i].name = n /\ lm[i].ref = "spec"
        THEN [specs[n] EXCEPT !.status = "unloaded"] ELSE specs[n]]

UnloadRestored(rest, lm, P) ==
    [n \in DOMAIN rest |->
        IF \E i \in P : lm[i].name = n /\ lm[i].ref = "restored"
        THEN [rest[n] EXCEPT !.status = "unloaded"] ELSE rest[n]]

\* every ModelInfo object's status: <<of the catalog's object, of the restored one>>
StatusView(specs, rest) ==
    [n \in AllNames |-> <<IF n \in DOMAIN specs THEN specs[n].status ELSE "none",
                          IF n \in DOMAIN rest THEN rest[n].status ELSE "none">>]

(***************************************************************************)
(* Construction: AIMemoryManager.__init__                                  *)
(***************************************************************************)
\* an entry the ModelInfo constructor accepts, as _save_state writes them
GoodEntries ==
    {FileEntry(n, TRUE, [StaticCatalog[n] EXCEPT !.usage_count = 1, !.status = st]) :
        n \in Names, st \in {"loaded", "unloaded"}}
    \cup {FileEntry(n, TRUE, ModelInfo(n, 1, 0, 0, 1, prio, st)) :
            n \in OldNames, prio \in OldPriorities, st \in {"loaded", "unloaded"}}

\* an entry the ModelInfo constructor raises on (a field is missing)
BadEntry == FileEntry("x", FALSE, ModelInfo("x", 0, 0, 0, 0, 0, "unloaded"))

\* JSON objects have distinct keys
DistinctNames(es) == \A i, j \in 1..Len(es) : i # j => es[i].name # es[j].name

RECURSIVE FileLoadedSum(_, _)
FileLoadedSum(es, i) ==
    IF i > Len(es) THEN 0
    ELSE (IF es[i].ok /\ es[i].info.status = "loaded" THEN es[i].info.size_gb ELSE 0)
         + FileLoadedSum(es, i + 1)

\* sequences of entries that fit the budget; _load_state reads nothing past the
\* first entry it cannot restore, so a bad entry is the last one
GoodSeqs(budget) ==
    {es \in UNION {[1..k -> GoodEntries] : k \in FileLengths} :
        DistinctNames(es) /\ FileLoadedSum(es, 1) <= budget}

\* the checkpoint files a manager may find at startup: none, an unparseable one,
\* or a JSON object
InitialFiles(budget) ==
    {AbsentFile, InvalidFile}
    \cup {JsonFile(es) : es \in GoodSeqs(budget)}
    \cup {JsonFile(Append(es, BadEntry)) :
            es \in {x \in GoodSeqs(budget) : Len(x) + 1 \in FileLengths}}

NoView == [n \in AllNames |-> <<"none", "none">>]

Event(p, h, m, r, g, v, c) ==
    [proc |-> p, how |-> h, model |-> m, ret |-> r, probes |-> g, pre |-> v,
     count |-> c, waited |-> p # NoProc /\ pc[p] = "waiting"]

NoEvent == Event(NoProc, "none", Unknown, "none", 0, NoView, 0)
Constructed == Event(NoProc, "constructed", Unknown, "none", 0, NoView, 0)

NoStreak == [model |-> Unknown, n |-> 0, base |-> 0]

UnreadFile == [kind |-> "unread", entries |-> <<>>]

\* before __init__ runs: the budget and the checkpoint file it will find
MgrUnconstructed(budget, f) ==
    /\ max_memory_gb = budget
    /\ model_specs = StaticCatalog
    /\ restored = RestoredObjects(AbsentFile)
    /\ loaded_models = <<>>
    /\ state_file = f
    /\ boot_file = UnreadFile
    /\ lock_holder = NoProc
    /\ lock_waiters = <<>>
    /\ pc = [p \in Procs |-> "idle"]
    /\ target = [p \in Procs |-> Unknown]
    /\ start_time = 0
    /\ probes = 0
    /\ pre = NoView
    /\ last = NoEvent
    /\ streak = NoStreak
    /\ gateway_calls = 0
    /\ now = 0
    /\ ncalls = 0

\* __init__, lines 117-141: the catalog, then _load_state
Construct ==
    /\ boot_file = UnreadFile
    /\ model_specs' = StaticCatalog
    /\ restored' = RestoredObjects(state_file)
    /\ loaded_models' = RestoredLoadedModels(state_file)
    /\ boot_file' = state_file
    /\ last' = Constructed
    /\ UNCHANGED <<max_memory_gb, state_file, lock_holder, lock_waiters, pc, target,
                   start_time, probes, pre, streak, gateway_calls, now, ncalls>>
    /\ UNCHANGED <<cacheVars, engineVars, pipeVars>>

NoResponse == [text |-> "none", confidence |-> 0]

\* a cache call that returned: its arguments (stored: the response passed to a
\* store), what it returned (hit, response), the key of the entry written or
\* served (source), the keys evicted, the cache as the call found it
\* (size_before, fresh: the key was not in it), and for a lookup whether it
\* follows a store of the same query and context (then stored is that store's)
NoReply == [op |-> "none", query |-> <<>>, context |-> <<>>, hit |-> "none",
            response |-> NoResponse, source |-> <<>>,
            evicted |-> {}, size_before |-> 0, fresh |-> FALSE,
            follows |-> FALSE, stored |-> NoResponse]

\* SemanticCacheEngine.__init__, lines 173-181; calls: the cache calls allowed
CacheConstructedFor(size, threshold, calls) ==
    /\ cache_size = size
    /\ similarity_threshold = threshold
    /\ cache = <<>>
    /\ embeddings = <<>>
    /\ is_vectorizer_fitted = FALSE
    /\ fitted_on = <<>>
    /\ reply = NoReply
    /\ cache_time = 0
    /\ cache_calls_left = calls

CacheConstructed(size, threshold) == CacheConstructedFor(size, threshold, MaxCacheOps)

\* the cache engine of a run that only exercises the manager
CacheIdle == CacheConstructedFor(DefaultCacheSize, DefaultThreshold, 0)

\* self.performance_model = None; Ridge(alpha=1.0) before fit() has returned
NoModel == [kind |-> "none", slope |-> 0, intercept |-> 0]
Unfitted == [kind |-> "unfitted", slope |-> 0, intercept |-> 0]

NoResult == [op |-> "none", value |-> 0, batch |-> <<>>, queue_before |-> <<>>,
             model_before |-> NoModel, raised |-> FALSE, trained |-> FALSE]

\* the threads that call the engine
Threads == 1..NThreads
\* a thread that is not between line 109 and line 111 of get_optimal_batch
NotSelecting == [active |-> FALSE, optimal_size |-> 0, queue_seen |-> <<>>]

\* AdaptiveBatchingEngine.__init__, lines 55-61
EngineConstructedFor(size, requests, samples) ==
    /\ max_batch_size = size
    /\ pending_requests = <<>>
    /\ batch_history = [len |-> 0, finite |-> TRUE, appended |-> 0]
    /\ performance_model = NoModel
    /\ result = NoResult
    /\ issued = <<>>
    /\ dispatched = <<>>
    /\ requests_left = requests
    /\ samples_left = samples
    /\ selecting = [t \in Threads |-> NotSelecting]

\* the batching engine of a run that never calls it
EngineIdle == EngineConstructedFor(DefaultMaxBatchSize, 0, 0)

\* no process_query_enhanced call has been made
PipeIdle == in_flight = <<>> /\ answered = "none"

InitManager ==
    /\ \E budget \in Budgets : \E f \in InitialFiles(budget) : MgrUnconstructed(budget, f)
    /\ CacheIdle
    /\ EngineIdle
    /\ PipeIdle

(***************************************************************************)
(* smart_model_load                                                        *)
(***************************************************************************)
\* leaving async with self.loading_lock: the lock is free again, the call is over
Return(p) ==
    /\ lock_holder' = NoProc
    /\ pc' = [pc EXCEPT ![p] = "idle"]
    /\ target' = [target EXCEPT ![p] = Unknown]
    /\ start_time' = 0
    /\ probes' = 0
    /\ pre' = NoView

\* usage_count of loaded_models[n], 0 when n is no key
UsageCount(specs, rest, lm, n) ==
    IF n \in LoadedNames(lm) THEN Lookup(specs, rest, lm, n).usage_count ELSE 0

\* FastPath without line 250: usage_count is not incremented
FastPathNoCount(p, m, t) ==
    LET e == loaded_models[IndexOf(loaded_models, m)]
        touched == [Deref(model_specs, restored, e) EXCEPT !.last_used = t]
        specs2 == IF e.ref = "spec" THEN [model_specs EXCEPT ![m] = touched] ELSE model_specs
        rest2 == IF e.ref = "restored" THEN [restored EXCEPT ![m] = touched] ELSE restored
        view == StatusView(model_specs, restored)
        count == UsageCount(model_specs, restored, loaded_models, m)
    IN /\ model_specs' = specs2
       /\ restored' = rest2
       /\ state_file' = SaveState(specs2, rest2, loaded_models)
       /\ Return(p)
       /\ last' = Event(p, "fast", m, "true", probes, view, count)
       /\ streak' = IF streak.model = m /\ streak.n > 0
                    THEN [streak EXCEPT !.n = @ + 1]
                    ELSE [model |-> m, n |-> 1, base |-> count]
       /\ UNCHANGED <<loaded_models, gateway_calls>>

\* lines 248-252: the model is loaded already
FastPath(p, m, t) ==
    LET e == loaded_models[IndexOf(loaded_models, m)]
        touched == [Deref(model_specs, restored, e) EXCEPT
                        !.last_used = t, !.usage_count = @ + 1]
        specs2 == IF e.ref = "spec" THEN [model_specs EXCEPT ![m] = touched] ELSE model_specs
        rest2 == IF e.ref = "restored" THEN [restored EXCEPT ![m] = touched] ELSE restored
        view == StatusView(model_specs, restored)
        count == UsageCount(model_specs, restored, loaded_models, m)
    IN /\ model_specs' = specs2
       /\ restored' = rest2
       /\ state_file' = SaveState(specs2, rest2, loaded_models)
       /\ Return(p)
       /\ last' = Event(p, "fast", m, "true", probes, view, count)
       /\ streak' = IF streak.model = m /\ streak.n > 0
                    THEN [streak EXCEPT !.n = @ + 1]
                    ELSE [model |-> m, n |-> 1, base |-> count]
       /\ UNCHANGED <<loaded_models, gateway_calls>>

\* lines 255-257: the model is not in the catalog
UnknownModel(p, m) ==
    /\ Return(p)
    /\ last' = Event(p, "unknown", m, "false", probes,
                     StatusView(model_specs, restored), 0)
    /\ streak' = NoStreak
    /\ UNCHANGED <<model_specs, restored, loaded_models, state_file, gateway_calls>>

\* lines 259-278: make room, mark the model loading, send the probe
BeginLoad(p, m, t) ==
    LET required_memory == model_specs[m].size_gb
        current_memory == GetCurrentMemoryUsage(model_specs, restored, loaded_models)
        P == IF current_memory + required_memory > max_memory_gb
             THEN FreeMemoryForModel(model_specs, restored, loaded_models,
                                     max_memory_gb, required_memory)
             ELSE {}
        specs1 == UnloadSpecs(model_specs, loaded_models, P)
        view == StatusView(model_specs, restored)
    IN /\ model_specs' = [specs1 EXCEPT ![m].status = "loading"]
       /\ restored' = UnloadRestored(restored, loaded_models, P)
       /\ start_time' = t
       /\ gateway_calls' = gateway_calls + 1
       /\ probes' = probes + 1
       /\ pc' = [pc EXCEPT ![p] = "probing"]
       /\ target' = [target EXCEPT ![p] = m]
       /\ lock_holder' = p
       /\ pre' = view
       /\ last' = Event(p, "began", m, "none", probes + 1, view, 0)
       /\ UNCHANGED <<loaded_models, state_file, streak>>

\* the readings time.time() may give next
Readings == {t \in {now, now + 1} : t <= MaxTime}

\* lines 246-278: inside the lock, up to the first suspension point (the await
\* of ollama.chat) or to the return
Enter(p, m) ==
    \E t \in Readings :
        /\ now' = t
        /\ IF IsLoaded(model_specs, restored, loaded_models, m)
           THEN FastPath(p, m, t)
           ELSE IF m \notin DOMAIN model_specs
                THEN UnknownModel(p, m)
                ELSE BeginLoad(p, m, t)

\* a lock that every caller finds free
LockFreeAlways == TRUE

\* asyncio.Lock.acquire returns at once when the lock is free and nobody waits
LockFree == lock_holder = NoProc /\ lock_waiters = <<>>

\* a caller invokes smart_model_load(m): it enters the lock when it is free
\* and queues for it otherwise
Call(p, m) ==
    /\ boot_file # UnreadFile
    /\ pc[p] = "idle"
    /\ ncalls < MaxCalls
    /\ ncalls' = ncalls + 1
    /\ IF LockFree
       THEN /\ Enter(p, m)
            /\ UNCHANGED lock_waiters
       ELSE /\ pc' = [pc EXCEPT ![p] = "waiting"]
            /\ target' = [target EXCEPT ![p] = m]
            /\ lock_waiters' = Append(lock_waiters, p)
            /\ last' = NoEvent
            /\ UNCHANGED <<model_specs, restored, loaded_models, state_file,
                           lock_holder, start_time, probes, pre, streak,
                           gateway_calls, now>>
    /\ UNCHANGED <<max_memory_gb, boot_file>>
    /\ UNCHANGED <<cacheVars, engineVars, pipeVars>>

\* the lock was released: the call at the head of the queue gets it
Acquire(p) ==
    /\ pc[p] = "waiting"
    /\ lock_holder = NoProc
    /\ lock_waiters # <<>>
    /\ Head(lock_waiters) = p
    /\ lock_waiters' = Tail(lock_waiters)
    /\ Enter(p, target[p])
    /\ UNCHANGED <<max_memory_gb, boot_file, ncalls>>
    /\ UNCHANGED <<cacheVars, engineVars, pipeVars>>

\* LoadSucceeded without line 288: the model is not entered into loaded_models
LoadSucceededNoRegister(p, m, t) ==
    LET specs2 == [model_specs EXCEPT ![m] =
                      [@ EXCEPT !.last_used = t,
                                !.load_time = t - start_time,
                                !.usage_count = @ + 1,
                                !.status = "loaded"]]
    IN /\ model_specs' = specs2
       /\ loaded_models' = loaded_models
       /\ state_file' = SaveState(specs2, restored, loaded_models)
       /\ last' = Event(p, "loaded", m, "true", probes, pre, 0)
       /\ UNCHANGED gateway_calls

\* lines 280-292: ollama.chat returned
LoadSucceeded(p, m, t) ==
    LET specs2 == [model_specs EXCEPT ![m] =
                      [@ EXCEPT !.last_used = t,
                                !.load_time = t - start_time,
                                !.usage_count = @ + 1,
                                !.status = "loaded"]]
        lm2 == Assign(loaded_models, m, "spec")
    IN /\ model_specs' = specs2
       /\ loaded_models' = lm2
       /\ state_file' = SaveState(specs2, restored, lm2)
       /\ last' = Event(p, "loaded", m, "true", probes, pre, 0)
       /\ UNCHANGED gateway_calls

ProbeSucceeds(p) ==
    /\ pc[p] = "probing"
    /\ \E t \in Readings :
        /\ now' = t
        /\ LoadSucceeded(p, target[p], t)
    /\ Return(p)
    /\ streak' = NoStreak
    /\ UNCHANGED <<max_memory_gb, restored, boot_file, lock_waiters, ncalls>>
    /\ UNCHANGED <<cacheVars, engineVars, pipeVars>>

\* LoadFailed without line 295: the status is not reverted
LoadFailedNoRevert(p, m) ==
    /\ model_specs' = model_specs
    /\ last' = Event(p, "failed", m, "false", probes, pre, 0)
    /\ UNCHANGED <<loaded_models, state_file, gateway_calls>>

\* lines 294-297: ollama.chat raised an Exception
LoadFailed(p, m) ==
    /\ model_specs' = [model_specs EXCEPT ![m].status = "unloaded"]
    /\ last' = Event(p, "failed", m, "false", probes, pre, 0)
    /\ UNCHANGED <<loaded_models, state_file, gateway_calls>>

ProbeRaises(p) ==
    /\ pc[p] = "probing"
    /\ LoadFailed(p, target[p])
    /\ Return(p)
    /\ streak' = NoStreak
    /\ UNCHANGED <<max_memory_gb, restored, boot_file, lock_waiters, now, ncalls>>
    /\ UNCHANGED <<cacheVars, engineVars, pipeVars>>

\* the caller cancels the call while it awaits ollama.chat: CancelledError is
\* no Exception, so the except clause of lines 294-297 does not run; only the
\* async with releases the lock
LoadCancelled(p, m) ==
    /\ last' = Event(p, "cancelled", m, "cancelled", probes, pre, 0)
    /\ UNCHANGED <<model_specs, loaded_models, state_file, gateway_calls>>

CancelProbe(p) ==
    /\ pc[p] = "probing"
    /\ LoadCancelled(p, target[p])
    /\ Return(p)
    /\ streak' = NoStreak
    /\ UNCHANGED <<max_memory_gb, restored, boot_file, lock_waiters, now, ncalls>>
    /\ UNCHANGED <<cacheVars, engineVars, pipeVars>>

\* the caller cancels the call while it waits for the lock
CancelWaiting(p) ==
    /\ pc[p] = "waiting"
    /\ lock_waiters' = SelectSeq(lock_waiters, LAMBDA q : q # p)
    /\ pc' = [pc EXCEPT ![p] = "idle"]
    /\ target' = [target EXCEPT ![p] = Unknown]
    /\ last' = NoEvent
    /\ UNCHANGED <<max_memory_gb, model_specs, restored, loaded_models, state_file,
                   boot_file, lock_holder, start_time, probes, pre, streak,
                   gateway_calls, now, ncalls>>
    /\ UNCHANGED <<cacheVars, engineVars, pipeVars>>

NextManager ==
    \/ Construct
    \/ \E p \in Procs : \E m \in AllNames : Call(p, m)
    \/ \E p \in Procs : Acquire(p)
    \/ \E p \in Procs : ProbeSucceeds(p)
    \/ \E p \in Procs : ProbeRaises(p)
    \/ \E p \in Procs : CancelProbe(p)
    \/ \E p \in Procs : CancelWaiting(p)

SpecManager == InitManager /\ [][NextManager]_vars

(***************************************************************************)
(* The scenario of concurrent calls for one model that is not loaded yet   *)
(* and whose probe succeeds.                                               *)
(***************************************************************************)
SameModel == "tinyllama"

NotLoadedInFile(f, m) ==
    \A i \in 1..Len(f.entries) :
        f.entries[i].name = m => ~(f.entries[i].ok /\ f.entries[i].info.status = "loaded")

InitSame == InitManager /\ NotLoadedInFile(state_file, SameModel)

NextSame ==
    \/ Construct
    \/ \E p \in Procs : Call(p, SameModel)
    \/ \E p \in Procs : Acquire(p)
    \/ \E p \in Procs : ProbeSucceeds(p)

SpecSame == InitSame /\ [][NextSame]_vars

(***************************************************************************)
(* SemanticCacheEngine.  A query is its sequence of tokens, a context      *)
(* fingerprint a sequence of tokens too; md5 is taken as injective, so a    *)
(* cache key is the text that is hashed, query + context_hash.             *)
(***************************************************************************)
\* tokens of the queries tried; "data" occurs in the bootstrap query "show me
\* data", "sales" in no bootstrap query
Words == <<"data", "sales">>
WordSet == {Words[i] : i \in 1..Len(Words)}
BootstrapWords == {"data"}

Queries == {<<"data">>, <<"sales">>, <<"data", "sales">>}
Contexts == {<<>>, <<"sales">>}
Responses == {[text |-> "r1", confidence |-> 50], [text |-> "r2", confidence |-> 90]}
Thresholds == {75, DefaultThreshold}

\* hashlib.md5((query + context_hash).encode()).hexdigest()
CacheKey(query, context_hash) == query \o context_hash

Count(query, w) == Cardinality({i \in 1..Len(query) : query[i] = w})

\* number of the fitted documents (the first query and the bootstrap queries)
\* that contain w
DocFreq(w, first) ==
    (IF w \in BootstrapWords THEN 1 ELSE 0) + (IF Count(first, w) > 0 THEN 1 ELSE 0)

\* idf of a vocabulary term: ln(6 / (1 + df)) + 1 is 2.10 for df = 1 and 1.69 for
\* df = 2, kept as the ratio 5 : 4; a word outside the vocabulary weighs nothing
Idf(w, first) ==
    IF DocFreq(w, first) = 0 THEN 0
    ELSE IF DocFreq(w, first) = 1 THEN 5 ELSE 4

\* vectorizer.transform([query]): term count times idf.  The division by the
\* norm (line 194) keeps the direction, which is all cosine_similarity reads.
Transform(query, first) == [w \in WordSet |-> Count(query, w) * Idf(w, first)]

\* _get_query_embedding: the query the vectorizer is fitted on after the call
FittedOn(query) == IF is_vectorizer_fitted THEN fitted_on ELSE query

\* _get_query_embedding, lines 183-198
GetQueryEmbedding(query) == Transform(query, FittedOn(query))

RECURSIVE DotFrom(_, _, _)
DotFrom(a, b, i) ==
    IF i > Len(Words) THEN 0
    ELSE a[Words[i]] * b[Words[i]] + DotFrom(a, b, i + 1)

Dot(a, b) == DotFrom(a, b, 1)

\* cosine_similarity(a, b) >= threshold / 100; the cosine of a zero vector is 0
SimilarityAtLeast(a, b, threshold) ==
    IF Dot(a, a) * Dot(b, b) = 0 THEN threshold <= 0
    ELSE Dot(a, b) * Dot(a, b) * 10000 >= threshold * threshold * Dot(a, a) * Dot(b, b)

\* cosine_similarity(q, a) > cosine_similarity(q, b), for non-zero a and b
MoreSimilar(q, a, b) ==
    Dot(q, a) * Dot(q, a) * Dot(b, b) > Dot(q, b) * Dot(q, b) * Dot(a, a)

KeysOf(entries) == {entries[i].key : i \in 1..Len(entries)}

PositionOf(entries, k) == CHOOSE i \in 1..Len(entries) : entries[i].key = k

\* Put that keeps the value of an existing key (setdefault instead of assignment)
PutIfAbsent(entries, v) ==
    IF v.key \in KeysOf(entries) THEN entries ELSE Append(entries, v)

\* d[k] = v on an insertion-ordered dict: an existing key keeps its place
Put(entries, v) ==
    IF v.key \in KeysOf(entries)
    THEN [entries EXCEPT ![PositionOf(entries, v.key)] = v]
    ELSE Append(entries, v)

\* del d[k] for every k in ks
Delete(entries, ks) == SelectSeq(entries, LAMBDA e : e.key \notin ks)

\* cosine_similarity(a, b), as the fraction <<numerator, denominator>> of its square
CosineSimilarity(a, b) == <<Dot(a, b) * Dot(a, b), Dot(a, a) * Dot(b, b)>>

RECURSIVE SortBySimilarityAscending(_, _, _)
\* SortBySimilarity without reverse=True
SortBySimilarityAscending(emb, q, S) ==
    IF S = {} THEN <<>>
    ELSE LET first == CHOOSE i \in S : \A j \in S \ {i} :
                          \/ MoreSimilar(q, emb[j].embedding, emb[i].embedding)
                          \/ /\ ~MoreSimilar(q, emb[i].embedding, emb[j].embedding)
                             /\ i < j
         IN <<emb[first].key>> \o SortBySimilarityAscending(emb, q, S \ {first})

RECURSIVE SortBySimilarity(_, _, _)
\* sorted(similarities, key=lambda x: x[1], reverse=True): descending, stable
SortBySimilarity(emb, q, S) ==
    IF S = {} THEN <<>>
    ELSE LET first == CHOOSE i \in S : \A j \in S \ {i} :
                          \/ MoreSimilar(q, emb[i].embedding, emb[j].embedding)
                          \/ /\ ~MoreSimilar(q, emb[j].embedding, emb[i].embedding)
                             /\ i < j
         IN <<emb[first].key>> \o SortBySimilarity(emb, q, S \ {first})

\* _find_similar_queries, lines 200-218: the keys of the three most similar
\* embeddings among those at or above the threshold
FindSimilarQueries(emb, q, threshold) ==
    LET above == {i \in 1..Len(emb) : SimilarityAtLeast(q, emb[i].embedding, threshold)}
        sorted == SortBySimilarity(emb, q, above)
    IN SubSeq(sorted, 1, IF Len(sorted) < 3 THEN Len(sorted) ELSE 3)

RECURSIVE SortByLastAccessed(_, _)
\* sorted(self.cache.items(), key=lambda x: x[1]['last_accessed']): ascending, stable
SortByLastAccessed(entries, S) ==
    IF S = {} THEN <<>>
    ELSE LET first == CHOOSE i \in S : \A j \in S \ {i} :
                          \/ entries[i].last_accessed < entries[j].last_accessed
                          \/ /\ entries[i].last_accessed = entries[j].last_accessed
                             /\ i < j
         IN <<entries[first].key>> \o SortByLastAccessed(entries, S \ {first})

\* EvictLruEntries with one entry too many removed
EvictLruEntriesOneMore(entries) ==
    IF entries = <<>> THEN {}
    ELSE LET sorted_entries == SortByLastAccessed(entries, 1..Len(entries))
             num_to_remove == Len(sorted_entries) \div 5 + 1
         IN {sorted_entries[i] : i \in 1..num_to_remove}

\* _evict_lru_entries, lines 282-299: the keys it deletes
EvictLruEntries(entries) ==
    IF entries = <<>> THEN {}
    ELSE LET sorted_entries == SortByLastAccessed(entries, 1..Len(entries))
             fifth == Len(sorted_entries) \div 5
             num_to_remove == IF fifth > 1 THEN fifth ELSE 1
         IN {sorted_entries[i] : i \in 1..num_to_remove}

\* the readings time.time() may give next
CacheReadings == {cache_time, cache_time + 1}

StoreReply(query, context_hash, response, evicted) ==
    [op |-> "store", query |-> query, context |-> context_hash, hit |-> "none",
     response |-> NoResponse, source |-> CacheKey(query, context_hash),
     evicted |-> evicted, size_before |-> Len(cache),
     fresh |-> CacheKey(query, context_hash) \notin KeysOf(cache),
     follows |-> FALSE, stored |-> response]

LookupReply(query, context_hash, hit, response, source) ==
    LET follows == reply.op = "store" /\ reply.query = query
                   /\ reply.context = context_hash
    IN [op |-> "lookup", query |-> query, context |-> context_hash, hit |-> hit,
        response |-> response, source |-> source,
        evicted |-> {}, size_before |-> Len(cache), fresh |-> FALSE,
        follows |-> follows, stored |-> IF follows THEN reply.stored ELSE NoResponse]

\* cache_response(query, context_hash, response), lines 252-280
CacheResponse(query, context_hash, response) ==
    /\ cache_calls_left > 0
    /\ cache_calls_left' = cache_calls_left - 1
    /\ \E t \in CacheReadings :
        LET query_embedding == GetQueryEmbedding(query)
            cache_key == CacheKey(query, context_hash)
            evicted == IF Len(cache) >= cache_size THEN EvictLruEntries(cache) ELSE {}
        IN /\ cache_time' = t
           /\ cache' = Put(Delete(cache, evicted),
                           [key |-> cache_key, response |-> response, timestamp |-> t,
                            access_count |-> 1, last_accessed |-> t,
                            query_sample |-> query])
           /\ embeddings' = Put(Delete(embeddings, evicted),
                                [key |-> cache_key, embedding |-> query_embedding,
                                 timestamp |-> t, usage_count |-> 1,
                                 quality_score |-> response.confidence])
           /\ reply' = StoreReply(query, context_hash, response, evicted)
    /\ fitted_on' = FittedOn(query)
    /\ is_vectorizer_fitted' = TRUE
    /\ UNCHANGED <<cache_size, similarity_threshold>>
    /\ UNCHANGED mgrVars

\* Touch that leaves last_accessed as it is
TouchCountOnly(entries, k, t) ==
    [entries EXCEPT ![PositionOf(entries, k)] = [@ EXCEPT !.access_count = @ + 1]]

\* self.cache[k]['access_count'] += 1; self.cache[k]['last_accessed'] = time.time()
Touch(entries, k, t) ==
    [entries EXCEPT ![PositionOf(entries, k)] =
        [@ EXCEPT !.access_count = @ + 1, !.last_accessed = t]]

\* lines 238-242: the copy of the response with the similarity metadata
Annotated(response, similarity) ==
    [text |-> response.text, confidence |-> response.confidence,
     cache_similarity |-> similarity, cache_type |-> "semantic"]

\* get_cached_response(query, context_hash), lines 220-250
GetCachedResponse(query, context_hash) ==
    /\ cache_calls_left > 0
    /\ cache_calls_left' = cache_calls_left - 1
    /\ \E t \in CacheReadings :
        LET query_embedding == GetQueryEmbedding(query)
            cache_key == CacheKey(query, context_hash)
            similar_queries == FindSimilarQueries(embeddings, query_embedding,
                                                  similarity_threshold)
            found == {i \in 1..Len(similar_queries) : similar_queries[i] \in KeysOf(cache)}
            similar_key == similar_queries[CHOOSE i \in found : \A j \in found : i <= j]
        IN IF cache_key \in KeysOf(cache)
           THEN /\ cache' = Touch(cache, cache_key, t)
                /\ cache_time' = t
                /\ reply' = LookupReply(query, context_hash, "exact",
                                        cache[PositionOf(cache, cache_key)].response,
                                        cache_key)
           ELSE IF found # {}
                THEN /\ cache' = Touch(cache, similar_key, t)
                     /\ cache_time' = t
                     /\ reply' = LookupReply(query, context_hash, "semantic",
                                             Annotated(cache[PositionOf(cache, similar_key)].response,
                                                       CosineSimilarity(query_embedding,
                                                           embeddings[PositionOf(embeddings, similar_key)].embedding)),
                                             similar_key)
                ELSE /\ cache' = cache
                     /\ cache_time' = cache_time
                     /\ reply' = LookupReply(query, context_hash, "miss", NoResponse, <<>>)
    /\ fitted_on' = FittedOn(query)
    /\ is_vectorizer_fitted' = TRUE
    /\ UNCHANGED <<cache_size, similarity_threshold, embeddings>>
    /\ UNCHANGED mgrVars

\* a manager that is never constructed, for the runs that only exercise the cache
MgrIdle == MgrUnconstructed(CHOOSE b \in Budgets : \A c \in Budgets : b <= c, AbsentFile)

InitCache ==
    /\ MgrIdle
    /\ EngineIdle
    /\ \E size \in 0..MaxCacheSize : \E threshold \in Thresholds :
           CacheConstructed(size, threshold)
    /\ PipeIdle

NextCache ==
    \/ \E q \in Queries : \E c \in Contexts : \E r \in Responses :
           CacheResponse(q, c, r) /\ UNCHANGED <<engineVars, pipeVars>>
    \/ \E q \in Queries : \E c \in Contexts :
           GetCachedResponse(q, c) /\ UNCHANGED <<engineVars, pipeVars>>

SpecCache == InitCache /\ [][NextCache]_vars

(***************************************************************************)
(* The scenario of a cache whose capacity is a multiple of 5 and that is   *)
(* filled by a run of cache_response calls.                                *)
(***************************************************************************)
FillSizes == {0, 5}
FillContexts == {<<>>, <<"data">>}
FillResponse == [text |-> "r1", confidence |-> 50]

InitFill ==
    /\ MgrIdle
    /\ EngineIdle
    /\ \E size \in FillSizes : CacheConstructedFor(size, DefaultThreshold, MaxFillOps)
    /\ PipeIdle

\* the calls of the run come one after the other: each reads a later time
NextFill ==
    \E q \in Queries : \E c \in FillContexts :
        /\ CacheResponse(q, c, FillResponse)
        /\ cache_time' = cache_time + 1
        /\ UNCHANGED <<engineVars, pipeVars>>

SpecFill == InitFill /\ [][NextFill]_vars

(***************************************************************************)
(* The scenario of a small cache that is read and written long enough for  *)
(* a hit to change which entry the next eviction removes.                  *)
(***************************************************************************)
LruSizes == {2, 3}
LruThreshold == 75

InitLru ==
    /\ MgrIdle
    /\ EngineIdle
    /\ PipeIdle
    /\ \E size \in LruSizes : CacheConstructedFor(size, LruThreshold, MaxLruOps)

NextLru ==
    \/ \E q \in Queries :
           CacheResponse(q, <<>>, FillResponse) /\ UNCHANGED <<engineVars, pipeVars>>
    \/ \E q \in Queries :
           GetCachedResponse(q, <<>>) /\ UNCHANGED <<engineVars, pipeVars>>

SpecLru == InitLru /\ [][NextLru]_vars

(***************************************************************************)
(* AdaptiveBatchingEngine.  A request is the dictionary add_request builds *)
(* (data, batch_id); data is the number of the request among those         *)
(* submitted, so that two requests never look the same.  A performance     *)
(* record is "ok" (finite numbers) or "nan" (a number that is not finite): *)
(* Ridge.fit raises ValueError on the latter.  A fitted model predicts     *)
(* slope * size + intercept for a batch of that size.                      *)
(***************************************************************************)
Slopes == {0 - 1, 0, 1}
Intercepts == {0, 4}
FittedModels == [kind : {"fitted"}, slope : Slopes, intercept : Intercepts]
SampleKinds == {"ok", "nan"}

Min(a, b) == IF a < b THEN a ELSE b

\* add_request(request_data), lines 92-101
AddRequest ==
    /\ requests_left > 0
    /\ requests_left' = requests_left - 1
    /\ LET batch_id == Len(pending_requests)
           request == [data |-> Len(issued) + 1, batch_id |-> batch_id]
       IN /\ pending_requests' = Append(pending_requests, request)
          /\ issued' = Append(issued, batch_id)
          /\ result' = [op |-> "add", value |-> batch_id, batch |-> <<>>,
                        queue_before |-> pending_requests,
                        model_before |-> performance_model, raised |-> FALSE,
                        trained |-> FALSE]
    /\ UNCHANGED <<max_batch_size, batch_history, performance_model, dispatched,
                   samples_left, selecting>>
    /\ UNCHANGED mgrVars

\* predicted_time * size, lines 135-139
Efficiency(model, size) == (model.slope * size + model.intercept) * size

\* _predict_optimal_batch_size with best_size = 0 to start with
PredictOptimalBatchSizeFromZero(model, queue, max) ==
    IF model = NoModel \/ queue = <<>>
    THEN Min(Len(queue), max)
    ELSE LET sizes == 1..(Min(Len(queue) + 1, max + 1) - 1)
         IN IF model = Unfitted \/ sizes = {}
            THEN 0
            ELSE CHOOSE s \in sizes :
                     \A t \in sizes :
                         /\ Efficiency(model, s) <= Efficiency(model, t)
                         /\ Efficiency(model, s) = Efficiency(model, t) => s <= t

\* _predict_optimal_batch_size that minimises the predicted time per item
PredictOptimalBatchSizePerItem(model, queue, max) ==
    IF model = NoModel \/ queue = <<>>
    THEN Min(Len(queue), max)
    ELSE LET sizes == 1..(Min(Len(queue) + 1, max + 1) - 1)
             PerItem(s) == model.slope * s + model.intercept
         IN IF model = Unfitted \/ sizes = {}
            THEN 1
            ELSE CHOOSE s \in sizes :
                     \A t \in sizes :
                         /\ PerItem(s) <= PerItem(t)
                         /\ PerItem(s) = PerItem(t) => s <= t

\* _predict_optimal_batch_size, lines 118-149
PredictOptimalBatchSize(model, queue, max) ==
    IF model = NoModel \/ queue = <<>>
    THEN Min(Len(queue), max)
    ELSE LET sizes == 1..(Min(Len(queue) + 1, max + 1) - 1)
         IN IF model = Unfitted \/ sizes = {}
            THEN 1
            ELSE CHOOSE s \in sizes :
                     \A t \in sizes :
                         /\ Efficiency(model, s) <= Efficiency(model, t)
                         /\ Efficiency(model, s) = Efficiency(model, t) => s <= t

\* the first n elements of a deque (all of them when it has fewer)
Take(queue, n) == SubSeq(queue, 1, Min(Len(queue), n))
\* what is left of a deque after n calls of popleft
Drop(queue, n) == SubSeq(queue, Min(Len(queue), n) + 1, Len(queue))
\* the last n elements of a deque, newest first
TakeRight(queue, n) ==
    [i \in 1..Min(Len(queue), n) |-> queue[Len(queue) + 1 - i]]
\* what is left of a deque after n calls of pop
DropRight(queue, n) == SubSeq(queue, 1, Len(queue) - Min(Len(queue), n))

\* lines 111-114 with pop() for popleft()
PopBatchRight(queue, optimal_size) ==
    IF optimal_size > 0 THEN <<TakeRight(queue, optimal_size), DropRight(queue, optimal_size)>>
    ELSE <<(<<>>), queue>>

\* lines 111-114: while self.pending_requests and len(batch) < optimal_size:
\* batch.append(self.pending_requests.popleft()); the batch and what is left
PopBatch(queue, optimal_size) ==
    IF optimal_size > 0 THEN <<Take(queue, optimal_size), Drop(queue, optimal_size)>>
    ELSE <<(<<>>), queue>>

\* get_optimal_batch(), lines 103-116
GetOptimalBatch ==
    LET optimal_size == PredictOptimalBatchSize(performance_model, pending_requests,
                                                max_batch_size)
        popped == PopBatch(pending_requests, optimal_size)
    IN /\ pending_requests' = popped[2]
       /\ dispatched' = dispatched \o popped[1]
       /\ result' = [op |-> "get", value |-> IF pending_requests = <<>> THEN 0 ELSE optimal_size,
                     batch |-> popped[1], queue_before |-> pending_requests,
                     model_before |-> performance_model, raised |-> FALSE,
                     trained |-> FALSE]
       /\ UNCHANGED <<max_batch_size, batch_history, performance_model, issued,
                      requests_left, samples_left, selecting>>
       /\ UNCHANGED mgrVars

\* self.batch_history.append(record), line 163, on a deque of maxlen 100: a
\* full deque drops its oldest record, which may have been the one that held
\* a number that is not finite
AppendRecord(history, kind) ==
    {[len |-> Min(history.len + 1, HistoryMaxLen),
      finite |-> f,
      appended |-> history.appended + 1] :
        f \in {history.finite /\ kind = "ok"}
              \cup (IF history.len = HistoryMaxLen THEN {kind = "ok"} ELSE {})}

\* _train_performance_model without the minimum of samples: what it leaves in
\* self.performance_model, whether it raises and whether it has fitted
TrainPerformanceModelAlways(history, model) ==
    IF history.finite
    THEN {<<fitted, FALSE, TRUE>> : fitted \in FittedModels}
    ELSE {<<Unfitted, TRUE, TRUE>>}

\* _train_performance_model, lines 63-90: what it leaves in
\* self.performance_model, whether it raises and whether it has called fit
TrainPerformanceModel(history, model) ==
    IF history.len < MinSamples
    THEN {<<model, FALSE, FALSE>>}
    ELSE IF history.finite
         THEN {<<fitted, FALSE, TRUE>> : fitted \in FittedModels}
         ELSE {<<Unfitted, TRUE, TRUE>>}

\* what record_batch_performance returns with: the number of the sample among
\* those recorded, whether the model was refitted, whether the call raised
Recorded(history, trained) ==
    [op |-> "record", value |-> history.appended, batch |-> <<>>,
     queue_before |-> pending_requests, model_before |-> performance_model,
     raised |-> trained[2], trained |-> trained[3]]

\* record_batch_performance that trains after every record
RecordBatchPerformanceEager(kind) ==
    /\ samples_left > 0
    /\ samples_left' = samples_left - 1
    /\ \E history \in AppendRecord(batch_history, kind) :
          /\ batch_history' = history
          /\ \E trained \in TrainPerformanceModelAlways(history, performance_model) :
                 /\ performance_model' = trained[1]
                 /\ result' = Recorded(history, trained)
    /\ UNCHANGED <<max_batch_size, pending_requests, issued, dispatched, requests_left,
                   selecting>>
    /\ UNCHANGED mgrVars

\* record_batch_performance(batch_size, processing_time, memory_usage), lines 151-167
RecordBatchPerformance(kind) ==
    /\ samples_left > 0
    /\ samples_left' = samples_left - 1
    /\ \E history \in AppendRecord(batch_history, kind) :
          /\ batch_history' = history
          /\ IF history.len % TrainEvery = 0
             THEN \E trained \in TrainPerformanceModel(history, performance_model) :
                      /\ performance_model' = trained[1]
                      /\ result' = Recorded(history, trained)
             ELSE /\ performance_model' = performance_model
                  /\ result' = Recorded(history, <<performance_model, FALSE, FALSE>>)
    /\ UNCHANGED <<max_batch_size, pending_requests, issued, dispatched, requests_left,
                   selecting>>
    /\ UNCHANGED mgrVars

InitEngine ==
    /\ MgrIdle
    /\ CacheIdle
    /\ \E size \in 0..MaxBatch : EngineConstructedFor(size, MaxRequests, MaxSamples)
    /\ PipeIdle

NextEngine ==
    \/ AddRequest /\ UNCHANGED <<cacheVars, pipeVars>>
    \/ GetOptimalBatch /\ UNCHANGED <<cacheVars, pipeVars>>
    \/ \E kind \in SampleKinds :
           RecordBatchPerformance(kind) /\ UNCHANGED <<cacheVars, pipeVars>>

SpecEngine == InitEngine /\ [][NextEngine]_vars

(***************************************************************************)
(* The scenario of an engine that records samples until batch_history      *)
(* has overflowed.                                                         *)
(***************************************************************************)
InitRefit ==
    /\ MgrIdle
    /\ CacheIdle
    /\ EngineConstructedFor(DefaultMaxBatchSize, 0, MaxRefitSamples)
    /\ PipeIdle

NextRefit ==
    \E kind \in SampleKinds :
        RecordBatchPerformance(kind) /\ UNCHANGED <<cacheVars, pipeVars>>

SpecRefit == InitRefit /\ [][NextRefit]_vars

(***************************************************************************)
(* The scenario of an engine that threads call: add_request runs under     *)
(* self.lock as a whole, get_optimal_batch computes optimal_size before    *)
(* it takes self.lock.                                                     *)
(***************************************************************************)
\* get_optimal_batch(), lines 105-109: the check of the queue and
\* optimal_size = self._predict_optimal_batch_size(), before self.lock
SelectSize(t) ==
    /\ ~selecting[t].active
    /\ IF pending_requests = <<>>
       THEN /\ result' = [op |-> "get", value |-> 0, batch |-> <<>>,
                          queue_before |-> pending_requests,
                          model_before |-> performance_model, raised |-> FALSE,
                          trained |-> FALSE]
            /\ UNCHANGED selecting
       ELSE /\ selecting' =
                   [selecting EXCEPT ![t] =
                       [active |-> TRUE,
                        optimal_size |-> PredictOptimalBatchSize(performance_model,
                                             pending_requests, max_batch_size),
                        queue_seen |-> pending_requests]]
            /\ UNCHANGED result
    /\ UNCHANGED <<max_batch_size, pending_requests, batch_history, performance_model,
                   issued, dispatched, requests_left, samples_left>>
    /\ UNCHANGED mgrVars

\* get_optimal_batch(), lines 111-116: with self.lock, the popleft loop and
\* the return of the batch
Dequeue(t) ==
    /\ selecting[t].active
    /\ LET popped == PopBatch(pending_requests, selecting[t].optimal_size)
       IN /\ pending_requests' = popped[2]
          /\ dispatched' = dispatched \o popped[1]
          /\ result' = [op |-> "get", value |-> selecting[t].optimal_size,
                        batch |-> popped[1], queue_before |-> pending_requests,
                        model_before |-> performance_model, raised |-> FALSE,
                        trained |-> FALSE]
    /\ selecting' = [selecting EXCEPT ![t] = NotSelecting]
    /\ UNCHANGED <<max_batch_size, batch_history, performance_model, issued,
                   requests_left, samples_left>>
    /\ UNCHANGED mgrVars

InitThreads ==
    /\ MgrIdle
    /\ CacheIdle
    /\ \E size \in 1..MaxBatch : EngineConstructedFor(size, MaxRequests, 0)
    /\ PipeIdle

NextThreads ==
    \/ AddRequest /\ UNCHANGED <<cacheVars, pipeVars>>
    \/ \E t \in Threads : SelectSize(t) /\ UNCHANGED <<cacheVars, pipeVars>>
    \/ \E t \in Threads : Dequeue(t) /\ UNCHANGED <<cacheVars, pipeVars>>

SpecThreads == InitThreads /\ [][NextThreads]_vars



(***************************************************************************)
(* The query pipeline: EnhancedNaturalLanguageAnalytics.process_query_     *)
(* enhanced with AdvancedMLOptimizer.optimize_query and postprocess_       *)
(* response.  A call runs to its await on the language model in one step   *)
(* and finishes in a second one, when the model has answered or raised.    *)
(***************************************************************************)
\* a query text that holds an e-mail address, and what sanitize_query makes of it
Email == "a@b.co"
EmailTag == "[EMAIL]"
PipelineQueries == {<<"data">>, <<"sales">>, <<"data", Email>>}

\* AnalyticsContext: the clients it holds
AnalyticsContexts == {<<>>, <<"acme">>, <<"zenith">>}

\* PrivacyPreservingEngine.sanitize_query, lines 348-364
SanitizeQuery(query) ==
    [i \in 1..Len(query) |-> IF query[i] = Email THEN EmailTag ELSE query[i]]

\* _generate_context_hash, lines 303-310: the digest of the number of clients
GenerateContextHash(context) ==
    IF Len(context) = 0 THEN <<"h0">> ELSE <<"h1">>

\* the first of the queries _preload_optimizations embeds, lines 504-513
PreloadQuery == <<"profit", "margin">>

\* seq without its i-th element
Without(seq, i) == SubSeq(seq, 1, i - 1) \o SubSeq(seq, i + 1, Len(seq))

\* process_query_enhanced, lines 83-84: the security framework blocks the query
QueryBlocked ==
    /\ answered' = "blocked"
    /\ UNCHANGED <<in_flight, mgrVars, cacheVars, engineVars>>

\* process_query_enhanced, lines 86-105, with optimize_query, lines 516-555:
\* the cache is asked; on a hit the call returns, on a miss the request is
\* added to the batching engine and the call waits for the language model
OptimizeQuery(query, context) ==
    LET context_hash == GenerateContextHash(context)
        sanitized_query == SanitizeQuery(query)
    IN /\ Len(in_flight) < MaxInFlight
       /\ GetCachedResponse(sanitized_query, context_hash)
       /\ IF reply'.hit = "miss"
          THEN /\ AddRequest
               /\ in_flight' = Append(in_flight, [query |-> query,
                                                  context_hash |-> context_hash])
               /\ answered' = "waiting"
          ELSE /\ UNCHANGED engineVars
               /\ in_flight' = in_flight
               /\ answered' = "cache_hit"

\* process_query_enhanced, lines 107-131, with postprocess_response, lines
\* 557-591: the model has answered and the answer is cached under the query
\* as the caller wrote it
ModelAnswers(i, response) ==
    /\ i \in 1..Len(in_flight)
    /\ CacheResponse(in_flight[i].query, in_flight[i].context_hash, response)
    /\ in_flight' = Without(in_flight, i)
    /\ answered' = "processed"
    /\ UNCHANGED engineVars

\* process_query_enhanced, lines 133-135: the model raised, an error response
\* is returned
ModelRaises(i) ==
    /\ i \in 1..Len(in_flight)
    /\ in_flight' = Without(in_flight, i)
    /\ answered' = "error"
    /\ UNCHANGED <<mgrVars, cacheVars, engineVars>>

\* AdvancedMLOptimizer.__init__, lines 483-489, then initialize() or not
InitPipeline ==
    /\ MgrIdle
    /\ EngineConstructedFor(DefaultMaxBatchSize, MaxPipelineOps, 0)
    /\ PipeIdle
    /\ cache_size = PipelineCacheSize
    /\ similarity_threshold = DefaultThreshold
    /\ cache = <<>>
    /\ embeddings = <<>>
    /\ is_vectorizer_fitted \in BOOLEAN
    /\ fitted_on = IF is_vectorizer_fitted THEN PreloadQuery ELSE <<>>
    /\ reply = NoReply
    /\ cache_time = 0
    /\ cache_calls_left = MaxPipelineOps

NextPipeline ==
    \/ QueryBlocked
    \/ \E q \in PipelineQueries : \E c \in AnalyticsContexts : OptimizeQuery(q, c)
    \/ \E i \in 1..MaxInFlight : \E r \in Responses : ModelAnswers(i, r)
    \/ \E i \in 1..MaxInFlight : ModelRaises(i)

SpecPipeline == InitPipeline /\ [][NextPipeline]_vars

\* a call that waits for the language model gets its answer or its exception
ModelReturns ==
    \E i \in 1..MaxInFlight :
        \/ ModelRaises(i)
        \/ \E r \in Responses : ModelAnswers(i, r)

\* the event loop resumes every call whose await is over; nothing obliges a
\* caller to send another query
SpecPipelineLive == SpecPipeline /\ WF_vars(ModelReturns)

(***************************************************************************)
(* Properties of the manager.                                              *)
(***************************************************************************)
StatusNow == StatusView(model_specs, restored)

MemoryNow == GetCurrentMemoryUsage(model_specs, restored, loaded_models)

Returned == last.how \in {"fast", "unknown", "loaded", "failed"}

\* C1: after every smart_model_load call returns, the sizes of the models whose
\* status is "loaded" add up to at most max_memory_gb.
C1_BudgetInvariant == Returned => MemoryNow <= max_memory_gb

\* the requested model does not fit even with everything else evicted
DoesNotFit(m) == m \in DOMAIN model_specs /\ model_specs[m].size_gb > max_memory_gb

\* C2: a call for a catalog model that does not fit the budget even after every
\* loaded model is evicted returns failure and leaves every status as it found it.
C2_ResourceExhausted ==
    (last.how \in {"loaded", "failed"} /\ DoesNotFit(last.model))
        => (last.ret = "false" /\ StatusNow = last.pre)

\* the entry at position i of loaded_models was loaded when the call entered
WasLoaded(i) ==
    last.pre[loaded_models[i].name][IF loaded_models[i].ref = "spec" THEN 1 ELSE 2] = "loaded"

StillLoaded(i) == Deref(model_specs, restored, loaded_models[i]).status = "loaded"

PriorityAt(i) == Deref(model_specs, restored, loaded_models[i]).priority

LastUsedAt(i) == Deref(model_specs, restored, loaded_models[i]).last_used

\* C3: when a call evicts, no model that stays loaded has a larger priority
\* number than a model that was evicted, and among models of equal priority no
\* model that stays loaded was used earlier than one that was evicted.
C3_EvictionOrder ==
    last.how = "began" =>
        \A i, j \in 1..Len(loaded_models) :
            (WasLoaded(i) /\ ~StillLoaded(i) /\ WasLoaded(j) /\ StillLoaded(j))
                => /\ PriorityAt(j) <= PriorityAt(i)
                   /\ (PriorityAt(j) = PriorityAt(i) => LastUsedAt(j) >= LastUsedAt(i))

\* C4: when a call returns failure because the probe raised, every status is
\* what it was when the call entered.
C4_LoadFailureAtomic == last.how = "failed" => StatusNow = last.pre

\* C5: when the probe raises, the call has issued exactly one gateway call,
\* returns failure, has released the lock, and the target's status is "unloaded".
C5_LoadFailure ==
    last.how = "failed" =>
        /\ last.probes = 1
        /\ last.ret = "false"
        /\ lock_holder = NoProc
        /\ pc[last.proc] = "idle"
        /\ model_specs[last.model].status = "unloaded"

C5_Witness == last.how = "failed" /\ lock_waiters # <<>>

\* C6: a call for a model that is loaded returns success, issues no gateway call,
\* adds exactly 1 to the model's usage_count and changes no status; n such calls
\* in a row add exactly n.
C6_IdempotentReuse ==
    /\ last.how = "fast" =>
        /\ last.ret = "true"
        /\ last.probes = 0
        /\ UsageCount(model_specs, restored, loaded_models, last.model) = last.count + 1
        /\ StatusNow = last.pre
    /\ streak.n > 0 =>
        UsageCount(model_specs, restored, loaded_models, streak.model)
            = streak.base + streak.n

C6_Witness == last.how = "fast" /\ streak.n = 2

\* C7: with concurrent calls for one model that is not loaded and a probe that
\* succeeds, one gateway probe is issued in total, at most one call is probing
\* while the others wait, and every call returns success.
C7_NoDuplicateLoads ==
    /\ gateway_calls <= 1
    /\ \A p, q \in Procs : (pc[p] = "probing" /\ q # p) => pc[q] # "probing"
    /\ Returned => (last.ret = "true" /\ gateway_calls = 1)

C7_Witness == last.how = "fast" /\ last.waited /\ gateway_calls = 1

\* C8: after a call is cancelled while its probe is in flight, the lock is free
\* and every model's status is "loaded" or "unloaded".
C8_CancelLeavesNoLoading ==
    last.how = "cancelled" =>
        /\ lock_holder = NoProc
        /\ \A n \in DOMAIN model_specs : model_specs[n].status \in {"loaded", "unloaded"}
        /\ \A n \in DOMAIN restored : restored[n].status \in {"loaded", "unloaded"}

\* the file is there and cannot be fully parsed
CannotParse(f) ==
    \/ f.kind = "invalid"
    \/ f.kind = "json" /\ \E i \in 1..Len(f.entries) : ~f.entries[i].ok

\* C9: construction from a checkpoint that cannot be fully parsed restores no
\* entry of the file.
C9_CorruptCheckpoint ==
    (last.how = "constructed" /\ CannotParse(boot_file)) => loaded_models = <<>>

(***************************************************************************)
(* Properties of the cache.                                                *)
(***************************************************************************)
\* C10: for every configured cache_size, after any cache_response or
\* get_cached_response call returns the cache holds at most cache_size entries.
C10_CacheCapacity == reply.op # "none" => Len(cache) <= cache_size

C12_ExactMatch ==
    (reply.op = "lookup" /\ reply.follows)
        => (reply.hit = "exact" /\ reply.response = reply.stored)

\* the store evicted and replaced another response under the same key
C12_Witness ==
    /\ reply.op = "lookup" /\ reply.follows /\ reply.hit = "exact"
    /\ reply.response = [text |-> "r2", confidence |-> 90]
    /\ cache_calls_left = 0

\* the embedding of the query of the lookup that just returned
ReplyEmbedding == Transform(reply.query, fitted_on)

\* positions of the stored entries at or above the threshold for that query
ReplyAbove ==
    {i \in 1..Len(embeddings) :
        /\ embeddings[i].key \in KeysOf(cache)
        /\ SimilarityAtLeast(ReplyEmbedding, embeddings[i].embedding, similarity_threshold)}

\* C13: when no entry has the exact key, a lookup returns a semantic hit exactly
\* when some stored entry has similarity >= similarity_threshold to the query;
\* the response is that of a stored entry of highest similarity, annotated with
\* that similarity and cache_type "semantic"; otherwise the lookup is a miss.
C13_SimilarityThreshold ==
    (reply.op = "lookup" /\ CacheKey(reply.query, reply.context) \notin KeysOf(cache))
        => /\ reply.hit = (IF ReplyAbove # {} THEN "semantic" ELSE "miss")
           /\ reply.hit = "semantic" =>
                \E i \in ReplyAbove :
                    /\ embeddings[i].key = reply.source
                    /\ \A j \in ReplyAbove :
                          ~MoreSimilar(ReplyEmbedding, embeddings[j].embedding,
                                       embeddings[i].embedding)
                    /\ reply.response =
                          Annotated(cache[PositionOf(cache, reply.source)].response,
                                    CosineSimilarity(ReplyEmbedding, embeddings[i].embedding))

\* a semantic hit at threshold 0.75 on an entry that is below 0.85, chosen over
\* nothing better
C13_Witness ==
    /\ reply.op = "lookup" /\ reply.hit = "semantic"
    /\ similarity_threshold < DefaultThreshold
    /\ \A i \in ReplyAbove :
          ~SimilarityAtLeast(ReplyEmbedding, embeddings[i].embedding, DefaultThreshold)

\* the context fingerprint an entry was stored with: its key is the text
\* query + context_hash and query_sample is the query
StoredContext(e) == SubSeq(e.key, Len(e.query_sample) + 1, Len(e.key))

\* C14: every hit of get_cached_response(Q, F), exact or semantic, serves an entry
\* that was stored with the same context fingerprint F.
C14_ContextInMatch ==
    (reply.op = "lookup" /\ reply.hit \in {"exact", "semantic"})
        => StoredContext(cache[PositionOf(cache, reply.source)]) = reply.context

(***************************************************************************)
(* Properties of the batching engine.                                      *)
(***************************************************************************)
\* C15: over any sequence of add_request and get_optimal_batch calls, the
\* number add_request returns is strictly greater than the number every
\* earlier add_request returned, so no two requests receive the same number.
C15_SequenceNumbers ==
    \A i \in 1..Len(issued) : \A j \in 1..Len(issued) :
        i < j => issued[i] < issued[j]

\* the call that just returned is a get_optimal_batch that found requests pending
GotFromPending == result.op = "get" /\ result.queue_before # <<>>

\* C16 as stated: for every configuration, a get_optimal_batch call made while
\* at least one request is pending returns a batch of at least one request.
C16_NonEmptyBatch == GotFromPending => result.batch # <<>>

\* C16: when max_batch_size is at least 1, a get_optimal_batch call made while
\* at least one request is pending returns a batch of at least one request,
\* whatever the performance model is.
C16_NonEmptyBatchPositive ==
    (GotFromPending /\ max_batch_size >= 1) => result.batch # <<>>

C16_Witness ==
    /\ GotFromPending
    /\ max_batch_size >= 1
    /\ result.model_before = Unfitted
    /\ Len(result.queue_before) >= 2
    /\ result.batch # <<>>

\* C17: while fewer than 10 performance samples have been recorded,
\* get_optimal_batch returns exactly min(queue length, max_batch_size) requests
\* and leaves the others pending.
C17_StaticFallback ==
    (result.op = "get" /\ batch_history.len < MinSamples) =>
        /\ Len(result.batch) = Min(Len(result.queue_before), max_batch_size)
        /\ Len(pending_requests) = Len(result.queue_before) - Len(result.batch)

\* a queue of 3 with max_batch_size 2 and 9 samples: 2 returned, 1 left
C17_Witness ==
    /\ result.op = "get"
    /\ batch_history.len = MinSamples - 1
    /\ Len(result.queue_before) = 3
    /\ max_batch_size = 2
    /\ Len(result.batch) = 2
    /\ Len(pending_requests) = 1

\* the requests of a sequence, by their number among those submitted
DataOf(requests) == [i \in 1..Len(requests) |-> requests[i].data]

\* C18: a batch holds the oldest pending requests in the order they were
\* submitted, what remains keeps its order, and the requests returned so far
\* followed by those still pending are exactly the requests submitted, each
\* once and in order: none is in two batches, none is lost.
C18_FifoDequeue ==
    /\ result.op = "get" =>
           /\ result.batch = Take(result.queue_before, Len(result.batch))
           /\ pending_requests = Drop(result.queue_before, Len(result.batch))
    /\ DataOf(dispatched \o pending_requests) = [i \in 1..Len(issued) |-> i]

\* a second batch, of two requests, that leaves a request pending
C18_Witness ==
    /\ result.op = "get"
    /\ Len(result.batch) = 2
    /\ Len(dispatched) > Len(result.batch)
    /\ pending_requests # <<>>

\* C19: when the performance model's prediction raises while get_optimal_batch
\* chooses a size (the estimator was never fitted, requests are pending and
\* there is a size to try), the batch size used is
\* min(queue length, max_batch_size).
C19_PredictionFailureFallback ==
    (GotFromPending /\ result.model_before = Unfitted /\ max_batch_size >= 1) =>
        result.value = Min(Len(result.queue_before), max_batch_size)

(***************************************************************************)
(* Properties of the query pipeline.                                       *)
(***************************************************************************)
\* C20: every request that the pipeline adds to the batching engine on a cache
\* miss is eventually returned in a batch: a request that is pending leads to
\* that request being among those dispatched.
C20_PipelineLiveness ==
    \A n \in 1..MaxPipelineOps :
        (\E i \in 1..Len(pending_requests) : pending_requests[i].data = n)
            ~> (\E i \in 1..Len(dispatched) : dispatched[i].data = n)

(***************************************************************************)
(* More properties of the manager.                                         *)
(***************************************************************************)
\* the calls between the start of their eviction and the end of their load
InTransition == {p \in Procs : pc[p] = "probing"}

\* the models one of whose objects has status "loading"
LoadingModels ==
    {n \in AllNames : StatusNow[n][1] = "loading" \/ StatusNow[n][2] = "loading"}

\* the step evicts: an object's status goes from "loaded" to "unloaded"
Evicts ==
    \E n \in AllNames : \E k \in 1..2 :
        StatusNow[n][k] = "loaded" /\ StatusNow'[n][k] = "unloaded"

\* C21: under any interleaving of concurrent smart_model_load calls, at most one
\* call is between the start of its eviction and the end of its load, and it
\* holds the lock; at most one model has status "loading"; and no step evicts
\* while a call's probe is in flight.
C21_MutualExclusion ==
    /\ [](/\ Cardinality(InTransition) <= 1
          /\ \A p \in InTransition : lock_holder = p
          /\ Cardinality(LoadingModels) <= 1)
    /\ [][Evicts => InTransition = {}]_vars

\* a call has evicted a model and is probing while another call waits for the lock
C21_Witness ==
    /\ \E n \in AllNames : \E k \in 1..2 :
           pre[n][k] = "loaded" /\ StatusNow[n][k] = "unloaded"
    /\ Cardinality(InTransition) = 1
    /\ lock_waiters # <<>>

\* the changes of status the state machine allows
AllowedChanges ==
    {<<"unloaded", "loading">>, <<"loading", "loaded">>, <<"loaded", "unloading">>,
     <<"unloading", "unloaded">>, <<"loading", "unloaded">>}

\* C22: every change of the status of a model's object follows
\* unloaded -> loading -> loaded -> unloading -> unloaded, or loading ->
\* unloaded when a load fails (an object that a construction has just created
\* from the checkpoint has no earlier status).
C22_StateMachine ==
    [][\A n \in AllNames : \A k \in 1..2 :
           (StatusNow[n][k] # "none" /\ StatusNow'[n][k] # StatusNow[n][k])
               => <<StatusNow[n][k], StatusNow'[n][k]>> \in AllowedChanges]_vars

\* the status the checkpoint file records for model n, "none" when it has no
\* entry for n
FileStatus(n) ==
    IF \E i \in 1..Len(state_file.entries) : state_file.entries[i].name = n
    THEN state_file.entries[CHOOSE i \in 1..Len(state_file.entries) :
                                state_file.entries[i].name = n].info.status
    ELSE "none"

\* the status of loaded_models[n], "none" when n is no key
MemoryStatus(n) ==
    IF n \in LoadedNames(loaded_models)
    THEN Lookup(model_specs, restored, loaded_models, n).status
    ELSE "none"

\* C23: whenever a smart_model_load call has returned, the status the checkpoint
\* file records for every model is the status the manager holds for it in
\* memory, evictions included.
C23_CheckpointFreshness ==
    Returned => \A n \in AllNames : FileStatus(n) = MemoryStatus(n)

(***************************************************************************)
(* More properties of the cache.                                           *)
(***************************************************************************)
\* the step is a store that evicts
StoreEvicts == reply'.op = "store" /\ reply'.evicted # {}

\* C24: the entries an eviction removes are the max(1, n div 5) entries with the
\* smallest last_accessed: no removed entry was accessed later than an entry
\* that survives; the responses and the embeddings of the removed entries, and
\* only those, are gone; and every store and every exact or semantic hit sets
\* last_accessed of the entry stored or served to the time of the call, which
\* is no earlier than any other entry's.
C24_LruEviction ==
    [][/\ StoreEvicts =>
            /\ reply'.evicted \subseteq KeysOf(cache)
            /\ Cardinality(reply'.evicted)
                   = (IF Len(cache) \div 5 > 1 THEN Len(cache) \div 5 ELSE 1)
            /\ \A i, j \in 1..Len(cache) :
                   (cache[i].key \in reply'.evicted /\ cache[j].key \notin reply'.evicted)
                       => cache[i].last_accessed <= cache[j].last_accessed
            /\ KeysOf(cache') = (KeysOf(cache) \ reply'.evicted) \cup {reply'.source}
            /\ KeysOf(embeddings') = KeysOf(cache')
       /\ (reply'.op = "store" \/ reply'.hit \in {"exact", "semantic"}) =>
            /\ cache'[PositionOf(cache', reply'.source)].last_accessed = cache_time'
            /\ \A i \in 1..Len(cache') : cache'[i].last_accessed <= cache_time'
      ]_vars

\* an eviction spared an entry that was stored first and hit since
C24_Witness ==
    /\ reply.op = "store"
    /\ reply.evicted # {}
    /\ reply.size_before = 2
    /\ \E i \in 1..Len(cache) :
           /\ cache[i].key # reply.source
           /\ cache[i].access_count > 1
           /\ cache[i].timestamp < cache[i].last_accessed
           /\ cache[i].timestamp = 0

(***************************************************************************)
(* More properties of the batching engine.                                 *)
(***************************************************************************)
\* the call that just returned is a get_optimal_batch that found requests
\* pending and a fitted performance model
GotWithFittedModel == GotFromPending /\ result.model_before.kind = "fitted"

\* the sizes get_optimal_batch may choose from
Candidates == 1..Min(Len(result.queue_before), max_batch_size)

\* the size chosen is a candidate of least predicted total time
ChoseBest ==
    /\ result.value \in Candidates
    /\ \A t \in Candidates :
           Efficiency(result.model_before, result.value)
               <= Efficiency(result.model_before, t)

\* C25 as stated: with a fitted performance model and a non-empty queue, the
\* size get_optimal_batch chooses lies in 1..min(queue length, max_batch_size)
\* and minimises predicted time per item times size over that range.
C25_BatchSizeObjective == GotWithFittedModel => ChoseBest

\* C25: with a fitted performance model, a non-empty queue and max_batch_size at
\* least 1, the size get_optimal_batch chooses lies in
\* 1..min(queue length, max_batch_size) and minimises predicted time per item
\* times size over that range.
C25_BatchSizeObjectivePositive ==
    (GotWithFittedModel /\ max_batch_size >= 1) => ChoseBest

\* the predicted time per item falls with the size, and yet one request is the
\* batch of least predicted total time
C25_Witness ==
    /\ GotWithFittedModel
    /\ result.model_before.slope < 0
    /\ max_batch_size >= 2
    /\ Len(result.queue_before) >= 2
    /\ result.value = 1
    /\ Len(result.batch) = 1

\* C26: record_batch_performance refits the performance model on the 10th,
\* 20th, 30th, ... sample recorded since construction and on no other sample,
\* also after batch_history has overflowed.
C26_RefitCadence ==
    result.op = "record" => (result.trained <=> result.value % TrainEvery = 0)

\* C27: when fitting raises during a refit, the performance model that later
\* get_optimal_batch calls consult is the one from before the refit attempt.
C27_RefitFailureKeepsModel ==
    (result.op = "record" /\ result.trained /\ result.raised)
        => performance_model = result.model_before

\* C28: under any interleaving of add_request and get_optimal_batch calls, a
\* get_optimal_batch call dequeues from the queue contents against which it
\* chose the batch size, and while no model is fitted the batch it returns
\* holds exactly min(L, max_batch_size) requests, L being the length of the
\* queue at the instant of the dequeue.
C28_AtomicSelectionAndDequeue ==
    [][\A t \in Threads :
          (selecting[t].active /\ ~selecting'[t].active) =>
              /\ selecting[t].queue_seen = pending_requests
              /\ performance_model = NoModel =>
                     Len(result'.batch) = Min(Len(pending_requests), max_batch_size)]_vars

\* C29: two distinct (query, fingerprint) pairs never share a cache key: an exact
\* hit of get_cached_response(Q2, F2) serves an entry that was stored under
\* exactly (Q2, F2), and a store under (Q1, F1) replaces no entry that was
\* stored under another pair.
C29_KeysSeparatePairs ==
    /\ [](reply.op = "lookup" /\ reply.hit = "exact" =>
             LET e == cache[PositionOf(cache, reply.source)]
             IN e.query_sample = reply.query /\ StoredContext(e) = reply.context)
    /\ [][reply'.op = "store" =>
             \A i \in 1..Len(cache) :
                 (cache[i].key = CacheKey(reply'.query, reply'.context)
                  /\ cache[i].key \notin reply'.evicted) =>
                     /\ cache[i].query_sample = reply'.query
                     /\ StoredContext(cache[i]) = reply'.context]_vars

\* C30: process_query_enhanced stores the response after a miss under the key
\* that optimize_query looks up for the same query, so a call that repeats
\* the query with the same context right after it was answered gets an exact
\* cache hit.
C30_StoreLookupKeyAgreement ==
    [][(/\ answered = "processed"
        /\ reply.op = "store"
        /\ reply'.op = "lookup"
        /\ reply'.query = SanitizeQuery(reply.query)
        /\ reply'.context = reply.context)
           => (reply'.hit = "exact" /\ answered' = "cache_hit")]_vars

====
